---- MODULE Spec2Model ----
(***************************************************************************)
(* mini-containerd: the launch chain of src/main.go.                        *)
(*   main -> needDelegate -> reexecInDelegate (systemd-run) -> main -> run  *)
(*        -> child (Container Init) -> target command                       *)
(* Every process is a small program counter over the statements of its      *)
(* function; every system call may fail, and a failure panics (exit 2).     *)
(***************************************************************************)
EXTENDS Integers, Sequences, FiniteSets, TLC

\* ------------------------------------------------------------- bounds
\* longest spec.mounts list
MaxMounts == 2
\* largest exit code a started program returns (codes are 0..MaxExit)
MaxExit == 3
\* orphaned descendants that may be reparented to Container Init
MaxOrphans == 1
\* processes of the delegation chain the model has room for
MaxChain == 3
\* longest spec.linux.namespaces list
MaxNs == 2

\* ---------------------------------------------------- program constants
\* exit status of a Go program that ends in an uncaught panic
PanicExit == 2
\* the exit status of a process that returns from main, and of os.Exit(0)
ExitOk == 0
\* "has not exited": below every exit status
NoExit == 0 - 1
\* the TasksMax handed to reexecInDelegate by main
PidsMax == 20

ExitCodes == 0..MaxExit

\* -------------------------------------------------------- byte strings
\* bytes.HasPrefix, bytes.Contains on sequences of characters
HasPrefix(s, prefix) ==
    /\ Len(s) >= Len(prefix)
    /\ SubSeq(s, 1, Len(prefix)) = prefix

Contains(s, sub) ==
    \E i \in 0..(Len(s) - Len(sub)) : SubSeq(s, i + 1, i + Len(sub)) = sub

\* strings.Join(elems, ",")
RECURSIVE Join(_)
Join(elems) ==
    IF elems = <<>> THEN <<>>
    ELSE IF Len(elems) = 1 THEN <<elems[1]>>
    ELSE <<elems[1], ",">> \o Join(Tail(elems))

SeqsUpTo(S, n) == UNION {[1..k -> S] : k \in 0..n}

\* ------------------------------------------------------------- inputs
\* File contents are sequences of characters.
\* /proc/1/comm: "systemd\n", "systemd-x\n", "init\n", "system\n", unreadable
Pid1Comms ==
    { <<"s", "y", "s", "t", "e", "m", "d", "\n">>,
      <<"s", "y", "s", "t", "e", "m", "d", "-", "x", "\n">>,
      <<"i", "n", "i", "t", "\n">>,
      <<"s", "y", "s", "t", "e", "m", "\n">>,
      <<>> }

\* /proc/self/cgroup: "0::/init.scope\n", "0::/user.slice\n", "1:/init.scope\n0::/\n",
\* "0::/init.scop\n", unreadable
SelfCgroups ==
    { <<"0", ":", ":", "/", "i", "n", "i", "t", ".", "s", "c", "o", "p", "e", "\n">>,
      <<"0", ":", ":", "/", "u", "s", "e", "r", ".", "s", "l", "i", "c", "e", "\n">>,
      <<"1", ":", "/", "i", "n", "i", "t", ".", "s", "c", "o", "p", "e", "\n", "0", ":", ":", "/", "\n">>,
      <<"0", ":", ":", "/", "i", "n", "i", "t", ".", "s", "c", "o", "p", "\n">>,
      <<>> }

\* the name needDelegate looks for at the start of /proc/1/comm
SystemdName == <<"s", "y", "s", "t", "e", "m", "d">>
\* the scope needDelegate looks for in /proc/self/cgroup
InitScope == <<"/", "i", "n", "i", "t", ".", "s", "c", "o", "p", "e">>

\* os.Getenv("RUNC_DELEGATED"): unset reads as ""
MarkerValues == {"", "1", "0"}

ProcMount == [destination |-> "/proc", source |-> "proc", type |-> "proc",
              options |-> <<>>]
SysMount == [destination |-> "/sys", source |-> "sysfs", type |-> "sysfs",
             options |-> <<"ro", "nosuid">>]
MountEntries == {ProcMount, SysMount}

NsKinds == {"pid", "uts", "mount", "network"}

\* The Go zero value of specs.Spec: what json.Unmarshal fills in.
\* hasRoot / hasProcess / hasLinux say whether the pointer field is non-nil,
\* hasEnv whether the process.env slice is (an absent "env" leaves it nil).
ZeroSpec ==
    [hostname |-> "", hasRoot |-> FALSE, rootPath |-> "", readonly |-> FALSE,
     hasProcess |-> FALSE, args |-> <<>>, hasEnv |-> FALSE, env |-> <<>>, cwd |-> "",
     uid |-> 0, gid |-> 0, mounts |-> <<>>,
     hasLinux |-> FALSE, namespaces |-> <<>>]

BaseSpec ==
    [ZeroSpec EXCEPT !.hasRoot = TRUE, !.rootPath = "rootfs",
                     !.hasProcess = TRUE, !.args = <<"/bin/echo", "hi">>,
                     !.hasEnv = TRUE, !.cwd = "/", !.hasLinux = TRUE]

\* fully populated specs: the hostname, the root flag, the mounts and the
\* user vary together
FullSpecs ==
    { [BaseSpec EXCEPT !.hostname = h, !.readonly = ro, !.mounts = ms,
                       !.uid = c.uid, !.gid = c.gid] :
        h \in {"", "box"}, ro \in BOOLEAN, ms \in SeqsUpTo(MountEntries, MaxMounts),
        c \in {[uid |-> 0, gid |-> 0], [uid |-> 1000, gid |-> 100]} }

\* specs that vary the target's environment: "env" absent, empty, or set
EnvSpecs ==
    { [BaseSpec EXCEPT !.env = e] : e \in {<<>>, <<"A=1">>, <<"A=1", "RUNC_DELEGATED=0">>} }
    \cup { [BaseSpec EXCEPT !.hasEnv = FALSE] }

\* specs that parse but leave a section out
PartialSpecs ==
    { [BaseSpec EXCEPT !.hostname = "box", !.hasRoot = FALSE, !.rootPath = ""],
      [BaseSpec EXCEPT !.hostname = "box", !.hasProcess = FALSE, !.args = <<>>],
      [BaseSpec EXCEPT !.hostname = "box", !.args = <<>>],
      [BaseSpec EXCEPT !.hasLinux = FALSE] }

\* specs that vary the requested namespaces
NsSpecs ==
    { [BaseSpec EXCEPT !.namespaces = ns] : ns \in SeqsUpTo(NsKinds, MaxNs) }

Specs == FullSpecs \cup EnvSpecs \cup PartialSpecs \cup NsSpecs

\* <bundle>/config.json: absent, not JSON, or a document that parses
ConfigFiles ==
    {[kind |-> "missing", spec |-> ZeroSpec], [kind |-> "malformed", spec |-> ZeroSpec]}
    \cup {[kind |-> "json", spec |-> s] : s \in Specs}

Bundle == "bundle"
SelfExe == "/usr/bin/minictr"

\* -------------------------------------------------------------- state
Procs == 1..MaxChain

VARIABLES
    \* the host, as the launcher finds it
    lookPathOk,   \* exec.LookPath("systemd-run") succeeds
    pid1comm,     \* contents of /proc/1/comm (empty when unreadable)
    selfcgroup,   \* contents of /proc/self/cgroup (empty when unreadable)
    config,       \* <bundle>/config.json
    \* the chain of launcher processes (1 is the one the user started)
    mpc,          \* [Procs -> position in main / reexecInDelegate / run]
    margs,        \* [Procs -> os.Args]
    menv,         \* [Procs -> value of RUNC_DELEGATED]
    mexit,        \* [Procs -> exit status, NoExit while alive]
    delegated,    \* [Procs -> needDelegate() returned true in this process]
    ran,          \* [Procs -> this process entered run()]
    sspec,        \* [Procs -> the Spec run() loaded]
    sflags,       \* [Procs -> Cloneflags run() computed]
    sm,           \* [Procs -> the systemd-run this process launched]
    \* Container Init
    cpc,          \* position in main / child / pivotRoot
    cargs,        \* os.Args of Init
    cenv,         \* RUNC_DELEGATED as Init inherited it
    cflags,       \* the clone flags Init was created with
    cparent,      \* the launcher process that started Init (0: started by hand)
    cspec,        \* the Spec child() loaded
    hostname,     \* the hostname of Init's UTS namespace
    fs,           \* Init's mount table and filesystem view
    cred,         \* Init's uid / gid
    trace,        \* the system calls Init has made, in order, with their outcome
    reaper,       \* the reaping goroutine has been started
    target,       \* the target command
    orphans,      \* [1..MaxOrphans -> state of a descendant reparented to Init]
    cexit         \* Init's exit status, NoExit while alive

hostVars == <<lookPathOk, pid1comm, selfcgroup, config>>
chainVars == <<mpc, margs, menv, mexit, delegated, ran, sspec, sflags, sm>>
initProcVars == <<cpc, cargs, cenv, cflags, cparent, cspec, cexit>>
initEffVars == <<hostname, fs, cred, trace, reaper, target, orphans>>
vars == <<hostVars, chainVars, initProcVars, initEffVars>>

\* ------------------------------------------------------ pure functions
\* loadSpec: ReadFile and Unmarshal; either error panics
loadSpec(cfg) ==
    IF cfg.kind = "missing" THEN [ok |-> FALSE, spec |-> ZeroSpec]
    ELSE IF cfg.kind = "malformed" THEN [ok |-> FALSE, spec |-> ZeroSpec]
    ELSE [ok |-> TRUE, spec |-> cfg.spec]

\* main's argument check and switch: which function the process runs
Dispatch(args) ==
    IF Len(args) < 3 THEN "panic"
    ELSE IF args[2] = "run" THEN "run"
    ELSE IF args[2] = "child" THEN "child"
    ELSE "panic"

\* os.Environ() of a process whose RUNC_DELEGATED reads as marker
Environ(marker) ==
    IF marker = "" THEN <<"PATH=/usr/bin">>
    ELSE IF marker = "1" THEN <<"PATH=/usr/bin", "RUNC_DELEGATED=1">>
    ELSE <<"PATH=/usr/bin", "RUNC_DELEGATED=0">>

\* the environment exec.Cmd gives the process it starts: cmd.Env, and the
\* environment of the current process when cmd.Env is nil
CmdEnvIgnoresNil(hasEnv, env, marker) == env

CmdEnv(hasEnv, env, marker) == IF hasEnv THEN env ELSE Environ(marker)

\* filepath.Join(bundle, spec.Root.Path)
Rootfs(spec) == <<Bundle, spec.rootPath>>

\* ------------------------------------------------------ Container Init
\* The statements of child() (with pivotRoot inlined where it is called), in
\* program order. mountAll is defined in the source and called from nowhere:
\* it has no position here.
ChildOrderPrivSwapped ==
    << "c_main", "c_load", "c_hostname", "c_root", "c_ro_bind", "c_ro_remount",
       "p_bind", "p_remount", "p_umount", "p_rmall", "c_rm_ptmx", "c_symlink",
       "c_cmd", "c_setuid", "c_setgid", "c_go", "c_start", "c_wait" >>

ChildOrderStartEarly ==
    << "c_main", "c_load", "c_hostname", "c_root", "c_ro_bind", "c_ro_remount",
       "p_bind", "p_remount", "p_umount", "p_rmall", "c_rm_ptmx", "c_symlink",
       "c_cmd", "c_go", "c_start", "c_setgid", "c_setuid", "c_wait" >>

ChildOrder ==
    << "c_main", "c_load", "c_hostname", "c_root", "c_ro_bind", "c_ro_remount",
       "p_bind", "p_remount", "p_umount", "p_rmall", "c_rm_ptmx", "c_symlink",
       "c_cmd", "c_setgid", "c_setuid", "c_go", "c_start", "c_wait" >>

\* the statement that follows pc
After(pc) ==
    LET i == CHOOSE k \in 1..Len(ChildOrder) : ChildOrder[k] = pc
    IN  IF i = Len(ChildOrder) THEN "c_ret" ELSE ChildOrder[i + 1]

Alive == cpc \notin {"none", "exited"}

Call(name, flags, ok) ==
    Append(trace, [call |-> name, flags |-> flags, ok |-> ok])

\* an uncaught panic(err): the process dies with status PanicExit
ChildPanic ==
    /\ cpc' = "exited"
    /\ cexit' = PanicExit

ChildGoto(pc) ==
    /\ cpc' = pc
    /\ cexit' = cexit

BindFlags == {"MS_BIND", "MS_REC"}
RemountRoFlags == {"MS_BIND", "MS_REMOUNT", "MS_RDONLY"}

\* main: argument count, switch on os.Args[1]; child: its own argument check
ChildMain ==
    /\ cpc = "c_main"
    /\ IF Dispatch(cargs) = "child" /\ ~(Len(cargs) < 3)
       THEN ChildGoto(After("c_main"))
       ELSE ChildPanic
    /\ UNCHANGED <<hostVars, chainVars, cargs, cenv, cflags, cparent, cspec, initEffVars>>

\* spec := loadSpec(bundle)
ChildLoadSpec ==
    /\ cpc = "c_load"
    /\ LET r == loadSpec(config)
       IN  IF r.ok
           THEN ChildGoto(After("c_load")) /\ cspec' = r.spec
           ELSE ChildPanic /\ cspec' = cspec
    /\ UNCHANGED <<hostVars, chainVars, cargs, cenv, cflags, cparent, initEffVars>>

\* if spec.Hostname != "" { Sethostname }
ChildHostname ==
    /\ cpc = "c_hostname"
    /\ IF cspec.hostname = ""
       THEN ChildGoto(After("c_hostname")) /\ UNCHANGED <<hostname, trace>>
       ELSE \E ok \in BOOLEAN :
              /\ trace' = Call("sethostname", {}, ok)
              /\ IF ok
                 THEN ChildGoto(After("c_hostname")) /\ hostname' = cspec.hostname
                 ELSE ChildPanic /\ hostname' = hostname
    /\ UNCHANGED <<hostVars, chainVars, cargs, cenv, cflags, cparent, cspec,
                   fs, cred, reaper, target, orphans>>

\* rootfs := filepath.Join(bundle, spec.Root.Path); if spec.Root.Readonly
\* (spec.Root is a pointer: the dereference panics when the section is absent)
ChildRoot ==
    /\ cpc = "c_root"
    /\ IF ~cspec.hasRoot THEN ChildPanic
       ELSE IF cspec.readonly THEN ChildGoto(After("c_root"))
       ELSE ChildGoto(After("c_ro_remount"))
    /\ UNCHANGED <<hostVars, chainVars, cargs, cenv, cflags, cparent, cspec, initEffVars>>

\* a mount(2) of rootfs onto itself at statement pc: a bind, or a read-only remount
MountRootfs(pc, flags) ==
    /\ cpc = pc
    /\ \E ok \in BOOLEAN :
         /\ trace' = Call("mount", flags, ok)
         /\ IF ok
            THEN /\ ChildGoto(After(pc))
                 /\ fs' = IF "MS_RDONLY" \in flags
                          THEN [fs EXCEPT !.ro = TRUE]
                          ELSE [fs EXCEPT !.binds = @ + 1]
            ELSE ChildPanic /\ fs' = fs
    /\ UNCHANGED <<hostVars, chainVars, cargs, cenv, cflags, cparent, cspec,
                   hostname, cred, reaper, target, orphans>>

\* child, inside `if spec.Root.Readonly`
ChildRoBind == MountRootfs("c_ro_bind", BindFlags)
ChildRoRemount == MountRootfs("c_ro_remount", RemountRoFlags)

\* pivotRoot: the bind, then the remount, neither under any condition
PivotBind == MountRootfs("p_bind", BindFlags)
PivotRemount == MountRootfs("p_remount", RemountRoFlags)

\* a pivotRoot that goes on when the unmount failed
PivotUnmountIgnoresError ==
    /\ cpc = "p_umount"
    /\ \E ok \in BOOLEAN :
         /\ trace' = Call("umount", {"MNT_DETACH"}, ok)
         /\ fs' = IF ok THEN [fs EXCEPT !.oldrootDetached = TRUE] ELSE fs
    /\ ChildGoto(After("p_umount"))
    /\ UNCHANGED <<hostVars, chainVars, cargs, cenv, cflags, cparent, cspec,
                   hostname, cred, reaper, target, orphans>>

\* pivotRoot: syscall.Unmount(putOld, MNT_DETACH), putOld = rootfs/.oldroot
PivotUnmount ==
    /\ cpc = "p_umount"
    /\ \E ok \in BOOLEAN :
         /\ trace' = Call("umount", {"MNT_DETACH"}, ok)
         /\ IF ok
            THEN ChildGoto(After("p_umount")) /\ fs' = [fs EXCEPT !.oldrootDetached = TRUE]
            ELSE ChildPanic /\ fs' = fs
    /\ UNCHANGED <<hostVars, chainVars, cargs, cenv, cflags, cparent, cspec,
                   hostname, cred, reaper, target, orphans>>

\* pivotRoot: return os.RemoveAll(putOld); child panics on the error
PivotRemoveAll ==
    /\ cpc = "p_rmall"
    /\ \E ok \in BOOLEAN :
         /\ trace' = Call("removeall", {}, ok)
         /\ IF ok
            THEN ChildGoto(After("p_rmall")) /\ fs' = [fs EXCEPT !.oldrootRemoved = TRUE]
            ELSE ChildPanic /\ fs' = fs
    /\ UNCHANGED <<hostVars, chainVars, cargs, cenv, cflags, cparent, cspec,
                   hostname, cred, reaper, target, orphans>>

\* _ = os.Remove("/dev/ptmx"): the error is dropped
ChildRmPtmx ==
    /\ cpc = "c_rm_ptmx"
    /\ \E ok \in BOOLEAN :
         /\ ok => fs.ptmx # "absent"
         /\ trace' = Call("remove_ptmx", {}, ok)
         /\ fs' = IF ok THEN [fs EXCEPT !.ptmx = "absent"] ELSE fs
    /\ ChildGoto(After("c_rm_ptmx"))
    /\ UNCHANGED <<hostVars, chainVars, cargs, cenv, cflags, cparent, cspec,
                   hostname, cred, reaper, target, orphans>>

\* os.Symlink("pts/ptmx", "/dev/ptmx"): fails when the name exists
ChildSymlink ==
    /\ cpc = "c_symlink"
    /\ \E ok \in BOOLEAN :
         /\ ok => fs.ptmx = "absent"
         /\ trace' = Call("symlink_ptmx", {}, ok)
         /\ IF ok
            THEN ChildGoto(After("c_symlink")) /\ fs' = [fs EXCEPT !.ptmx = "symlink"]
            ELSE ChildPanic /\ fs' = fs
    /\ UNCHANGED <<hostVars, chainVars, cargs, cenv, cflags, cparent, cspec,
                   hostname, cred, reaper, target, orphans>>

\* proc := spec.Process; exec.Command(proc.Args[0], proc.Args[1:]...)
\* a nil Process or an empty Args panics here
ChildCmd ==
    /\ cpc = "c_cmd"
    /\ IF cspec.hasProcess /\ Len(cspec.args) > 0
       THEN ChildGoto(After("c_cmd"))
       ELSE ChildPanic
    /\ UNCHANGED <<hostVars, chainVars, cargs, cenv, cflags, cparent, cspec, initEffVars>>

\* syscall.Setgid(int(proc.User.GID))
ChildSetgid ==
    /\ cpc = "c_setgid"
    /\ \E ok \in BOOLEAN :
         /\ trace' = Call("setgid", {}, ok)
         /\ IF ok
            THEN ChildGoto(After("c_setgid")) /\ cred' = [cred EXCEPT !.gid = cspec.gid]
            ELSE ChildPanic /\ cred' = cred
    /\ UNCHANGED <<hostVars, chainVars, cargs, cenv, cflags, cparent, cspec,
                   hostname, fs, reaper, target, orphans>>

\* syscall.Setuid(int(proc.User.UID))
ChildSetuid ==
    /\ cpc = "c_setuid"
    /\ \E ok \in BOOLEAN :
         /\ trace' = Call("setuid", {}, ok)
         /\ IF ok
            THEN ChildGoto(After("c_setuid")) /\ cred' = [cred EXCEPT !.uid = cspec.uid]
            ELSE ChildPanic /\ cred' = cred
    /\ UNCHANGED <<hostVars, chainVars, cargs, cenv, cflags, cparent, cspec,
                   hostname, fs, reaper, target, orphans>>

\* go func() { for { syscall.Wait4(-1, ...) } }()
ChildGo ==
    /\ cpc = "c_go"
    /\ reaper' = TRUE
    /\ trace' = Call("go_reaper", {}, TRUE)
    /\ ChildGoto(After("c_go"))
    /\ UNCHANGED <<hostVars, chainVars, cargs, cenv, cflags, cparent, cspec,
                   hostname, fs, cred, target, orphans>>

\* cmd.Run, first half: cmd.Start forks and execs the target
ChildStart ==
    /\ cpc = "c_start"
    /\ \E ok \in BOOLEAN :
         /\ trace' = Call("start", {}, ok)
         /\ IF ok
            THEN /\ ChildGoto(After("c_start"))
                 /\ target' = [st |-> "running", code |-> NoExit, by |-> "none",
                               args |-> cspec.args,
                               env |-> CmdEnv(cspec.hasEnv, cspec.env, cenv),
                               cwd |-> cspec.cwd,
                               uid |-> cred.uid, gid |-> cred.gid,
                               root |-> fs.root, ro |-> fs.ro]
            ELSE ChildPanic /\ target' = target
    /\ UNCHANGED <<hostVars, chainVars, cargs, cenv, cflags, cparent, cspec,
                   hostname, fs, cred, reaper, orphans>>

\* the target command terminates with some status and awaits collection
TargetExit ==
    /\ target.st = "running"
    /\ \E c \in ExitCodes : target' = [target EXCEPT !.st = "zombie", !.code = c]
    /\ UNCHANGED <<hostVars, chainVars, initProcVars, hostname, fs, cred, trace,
                   reaper, orphans>>

\* cmd.Run, second half: cmd.Wait collects the target; a status other than 0
\* is an *ExitError, and child panics on every error
ChildWaitCollect ==
    /\ cpc = "c_wait"
    /\ target.st = "zombie"
    /\ target' = [target EXCEPT !.st = "reaped", !.by = "fg"]
    /\ IF target.code = 0 THEN ChildGoto(After("c_wait")) ELSE ChildPanic
    /\ UNCHANGED <<hostVars, chainVars, cargs, cenv, cflags, cparent, cspec,
                   hostname, fs, cred, trace, reaper, orphans>>

\* cmd.Wait when the reaping goroutine has already collected the target:
\* the wait fails with ECHILD
ChildWaitLost ==
    /\ cpc = "c_wait"
    /\ target.st = "reaped"
    /\ ChildPanic
    /\ UNCHANGED <<hostVars, chainVars, cargs, cenv, cflags, cparent, cspec, initEffVars>>

\* a child that joins the reaping goroutine before it returns
ChildReturnJoinsReaper ==
    /\ cpc = "c_ret"
    /\ ~reaper
    /\ cpc' = "exited"
    /\ cexit' = ExitOk
    /\ UNCHANGED <<hostVars, chainVars, cargs, cenv, cflags, cparent, cspec, initEffVars>>

\* child returns, main returns: the process exits 0
ChildReturn ==
    /\ cpc = "c_ret"
    /\ cpc' = "exited"
    /\ cexit' = ExitOk
    /\ UNCHANGED <<hostVars, chainVars, cargs, cenv, cflags, cparent, cspec, initEffVars>>

\* the reaping goroutine: Wait4(-1) collects whichever child has terminated
ReaperReapTarget ==
    /\ reaper /\ Alive
    /\ target.st = "zombie"
    /\ target' = [target EXCEPT !.st = "reaped", !.by = "reaper"]
    /\ UNCHANGED <<hostVars, chainVars, initProcVars, hostname, fs, cred, trace,
                   reaper, orphans>>

\* a reaper that waits for the target's pid instead of any child
ReaperWaitsForTarget(i) ==
    /\ reaper /\ Alive
    /\ orphans[i] = "zombie"
    /\ target.st = "zombie"
    /\ target' = [target EXCEPT !.st = "reaped", !.by = "reaper"]
    /\ UNCHANGED <<hostVars, chainVars, initProcVars, hostname, fs, cred, trace,
                   reaper, orphans>>

ReaperReapOrphan(i) ==
    /\ reaper /\ Alive
    /\ orphans[i] = "zombie"
    /\ orphans' = [orphans EXCEPT ![i] = "reaped"]
    /\ UNCHANGED <<hostVars, chainVars, initProcVars, hostname, fs, cred, trace,
                   reaper, target>>

\* a descendant of the target loses its parent and is reparented to Init
OrphanAppear(i) ==
    /\ Alive
    /\ target.st # "none"
    /\ orphans[i] = "none"
    /\ orphans' = [orphans EXCEPT ![i] = "running"]
    /\ UNCHANGED <<hostVars, chainVars, initProcVars, hostname, fs, cred, trace,
                   reaper, target>>

OrphanExit(i) ==
    /\ Alive
    /\ orphans[i] = "running"
    /\ orphans' = [orphans EXCEPT ![i] = "zombie"]
    /\ UNCHANGED <<hostVars, chainVars, initProcVars, hostname, fs, cred, trace,
                   reaper, target>>

NextChild ==
    \/ ChildMain \/ ChildLoadSpec \/ ChildHostname \/ ChildRoot
    \/ ChildRoBind \/ ChildRoRemount
    \/ PivotBind \/ PivotRemount \/ PivotUnmount \/ PivotRemoveAll
    \/ ChildRmPtmx \/ ChildSymlink \/ ChildCmd
    \/ ChildSetgid \/ ChildSetuid \/ ChildGo \/ ChildStart
    \/ TargetExit \/ ChildWaitCollect \/ ChildWaitLost \/ ChildReturn
    \/ ReaperReapTarget
    \/ \E i \in 1..MaxOrphans :
          ReaperReapOrphan(i) \/ OrphanAppear(i) \/ OrphanExit(i)

\* mountAll: for each entry MkdirAll(destination) then mount(source,
\* destination, type, 0, Join(options, ",")); the first error ends it.
\* failAt is the index of the first system call that fails (0: none), calls
\* numbered 1, 2 for the first entry, 3, 4 for the second, ...
\* No function of the program calls mountAll.
RECURSIVE mountAllFrom(_, _, _)
mountAllFrom(mounts, k, failAt) ==
    IF k > Len(mounts) THEN [calls |-> <<>>, err |-> FALSE]
    ELSE IF failAt = 2 * k - 1
         THEN [calls |-> <<[call |-> "mkdirall", dest |-> mounts[k].destination,
                            data |-> <<>>, ok |-> FALSE]>>, err |-> TRUE]
    ELSE IF failAt = 2 * k
         THEN [calls |-> <<[call |-> "mkdirall", dest |-> mounts[k].destination,
                            data |-> <<>>, ok |-> TRUE],
                           [call |-> "mount_aux", dest |-> mounts[k].destination,
                            data |-> Join(mounts[k].options), ok |-> FALSE]>>,
               err |-> TRUE]
    ELSE LET rest == mountAllFrom(mounts, k + 1, failAt)
         IN  [calls |-> <<[call |-> "mkdirall", dest |-> mounts[k].destination,
                           data |-> <<>>, ok |-> TRUE],
                          [call |-> "mount_aux", dest |-> mounts[k].destination,
                           data |-> Join(mounts[k].options), ok |-> TRUE]>>
                        \o rest.calls,
              err |-> rest.err]

mountAll(mounts, failAt) == mountAllFrom(mounts, 1, failAt)

\* --------------------------------------------------- delegation controller
\* needDelegate, on what it reads: the marker, LookPath's outcome, /proc/1/comm
\* and /proc/self/cgroup (a failed read leaves the contents empty)
needDelegateNoMarker(marker, lookOk, p1, self) ==
    IF ~lookOk THEN FALSE
    ELSE IF ~HasPrefix(p1, SystemdName) THEN FALSE
    ELSE Contains(self, InitScope)

needDelegate(marker, lookOk, p1, self) ==
    IF marker = "1" THEN FALSE
    ELSE IF ~lookOk THEN FALSE
    ELSE IF ~HasPrefix(p1, SystemdName) THEN FALSE
    ELSE Contains(self, InitScope)

\* fmt.Sprintf("TasksMax=%d", pidsMax)
TasksMaxProp(pidsMax) == <<"TasksMax=", pidsMax>>

\* the argument vector reexecInDelegate hands to systemd-run
ReexecArgvNoSetenv(args, pidsMax) ==
    << <<"--scope">>, <<"-p">>, <<"Delegate=yes">>, <<"-p">>, TasksMaxProp(pidsMax),
       <<"--quiet">>, <<SelfExe>> >>
    \o [i \in 1..(Len(args) - 1) |-> <<args[i + 1]>>]

\* a re-exec that appends os.Args instead of os.Args[1:]
ReexecArgvWholeArgs(args, pidsMax) ==
    << <<"--scope">>, <<"-p">>, <<"Delegate=yes">>, <<"-p">>, TasksMaxProp(pidsMax),
       <<"--setenv=", "RUNC_DELEGATED", "1">>, <<"--quiet">>, <<SelfExe>> >>
    \o [i \in 1..Len(args) |-> <<args[i]>>]

ReexecArgv(args, pidsMax) ==
    << <<"--scope">>, <<"-p">>, <<"Delegate=yes">>, <<"-p">>, TasksMaxProp(pidsMax),
       <<"--setenv=", "RUNC_DELEGATED", "1">>, <<"--quiet">>, <<SelfExe>> >>
    \o [i \in 1..(Len(args) - 1) |-> <<args[i + 1]>>]

\* what systemd-run --scope does with that vector: the command is everything
\* from the first word that is not an option, and --setenv adds to the
\* inherited environment
IsOption(w) == w[1] \in {"--scope", "--setenv=", "--quiet"}
CommandStart(argv) ==
    CHOOSE i \in 1..Len(argv) :
        /\ ~IsOption(argv[i]) /\ argv[i][1] # "-p"
        /\ (i > 1 => argv[i - 1][1] # "-p")
        /\ \A j \in 1..(i - 1) :
              IsOption(argv[j]) \/ argv[j][1] = "-p" \/ (j > 1 /\ argv[j - 1][1] = "-p")
WrappedArgs(argv) ==
    [i \in 1..(Len(argv) - CommandStart(argv) + 1) |-> argv[CommandStart(argv) + i - 1][1]]
WrappedMarker(argv, inherited) ==
    IF \E i \in 1..(CommandStart(argv) - 1) :
          argv[i][1] = "--setenv=" /\ argv[i][2] = "RUNC_DELEGATED"
    THEN (CHOOSE w \in {argv[i] : i \in 1..(CommandStart(argv) - 1)} :
              w[1] = "--setenv=" /\ w[2] = "RUNC_DELEGATED")[3]
    ELSE inherited

\* namespaceFlags: the OR of the clone flag of every recognised entry
NsFlag(kind) ==
    CASE kind = "pid" -> {"CLONE_NEWPID"}
      [] kind = "uts" -> {"CLONE_NEWUTS"}
      [] kind = "mount" -> {"CLONE_NEWNS"}
      [] OTHER -> {}

RECURSIVE namespaceFlags(_)
namespaceFlags(namespaces) ==
    IF namespaces = <<>> THEN {}
    ELSE NsFlag(Head(namespaces)) \cup namespaceFlags(Tail(namespaces))

\* ------------------------------------------------------- launcher chain
NoSm == [st |-> "none", argv |-> <<>>, code |-> NoExit]

\* the process ends: a panic, a return from main, or os.Exit
MainExit(p, code) ==
    /\ mpc' = [mpc EXCEPT ![p] = "exited"]
    /\ mexit' = [mexit EXCEPT ![p] = code]

MainGoto(p, pc) ==
    /\ mpc' = [mpc EXCEPT ![p] = pc]
    /\ mexit' = mexit

\* main: len(os.Args) < 3 panics; switch os.Args[1]
Main(p) ==
    /\ mpc[p] = "main"
    /\ LET d == Dispatch(margs[p])
       IN  IF d = "panic" THEN MainExit(p, PanicExit)
           ELSE IF d = "run" THEN MainGoto(p, "need")
           ELSE MainGoto(p, "child")
    /\ UNCHANGED <<hostVars, margs, menv, delegated, ran, sspec, sflags, sm,
                   initProcVars, initEffVars>>

\* case "run": if needDelegate() { reexecInDelegate(20); return }; run()
NeedDelegate(p) ==
    /\ mpc[p] = "need"
    /\ LET d == needDelegate(menv[p], lookPathOk, pid1comm, selfcgroup)
       IN  /\ delegated' = [delegated EXCEPT ![p] = d]
           /\ MainGoto(p, IF d THEN "reexec" ELSE "run")
    /\ UNCHANGED <<hostVars, margs, menv, ran, sspec, sflags, sm,
                   initProcVars, initEffVars>>

\* reexecInDelegate up to cmd.Start: os.Executable, the argument vector,
\* exec.Command("systemd-run", args...); either failure panics
Reexec(p) ==
    /\ mpc[p] = "reexec"
    /\ \E exeOk \in BOOLEAN, startOk \in BOOLEAN :
         IF exeOk /\ startOk
         THEN /\ sm' = [sm EXCEPT ![p] = [st |-> "running",
                                          argv |-> ReexecArgv(margs[p], PidsMax),
                                          code |-> NoExit]]
              /\ MainGoto(p, "reexec_wait")
         ELSE /\ sm' = sm
              /\ MainExit(p, PanicExit)
    /\ UNCHANGED <<hostVars, margs, menv, delegated, ran, sspec, sflags,
                   initProcVars, initEffVars>>

\* systemd-run gives up before running the command (no bus, no permission,
\* the unit cannot be created): it exits with a status other than 0
SmFail(p) ==
    /\ sm[p].st = "running"
    /\ \E c \in ExitCodes \ {0} :
         sm' = [sm EXCEPT ![p] = [@ EXCEPT !.st = "exited", !.code = c]]
    /\ UNCHANGED <<hostVars, mpc, margs, menv, mexit, delegated, ran, sspec, sflags,
                   initProcVars, initEffVars>>

\* systemd-run --scope creates the scope and executes the command in it:
\* the next process of the chain, with the environment --setenv asks for
SmExec(p) ==
    /\ sm[p].st = "running"
    /\ p < MaxChain
    /\ mpc[p + 1] = "none"
    /\ sm' = [sm EXCEPT ![p] = [@ EXCEPT !.st = "execd"]]
    /\ mpc' = [mpc EXCEPT ![p + 1] = "main"]
    /\ margs' = [margs EXCEPT ![p + 1] = WrappedArgs(sm[p].argv)]
    /\ menv' = [menv EXCEPT ![p + 1] = WrappedMarker(sm[p].argv, menv[p])]
    /\ UNCHANGED <<hostVars, mexit, delegated, ran, sspec, sflags,
                   initProcVars, initEffVars>>

\* the command was executed in place of systemd-run: its status is the
\* status cmd.Wait sees
SmDone(p) ==
    /\ sm[p].st = "execd"
    /\ p < MaxChain
    /\ mpc[p + 1] = "exited"
    /\ sm' = [sm EXCEPT ![p] = [@ EXCEPT !.st = "exited", !.code = mexit[p + 1]]]
    /\ UNCHANGED <<hostVars, mpc, margs, menv, mexit, delegated, ran, sspec, sflags,
                   initProcVars, initEffVars>>

\* reexecInDelegate after cmd.Start: cmd.Wait; an error (any status but 0)
\* panics, otherwise os.Exit(0)
ReexecWaitIgnoresError(p) ==
    /\ mpc[p] = "reexec_wait"
    /\ sm[p].st = "exited"
    /\ MainExit(p, ExitOk)
    /\ UNCHANGED <<hostVars, margs, menv, delegated, ran, sspec, sflags, sm,
                   initProcVars, initEffVars>>

ReexecWait(p) ==
    /\ mpc[p] = "reexec_wait"
    /\ sm[p].st = "exited"
    /\ IF sm[p].code = 0 THEN MainExit(p, ExitOk) ELSE MainExit(p, PanicExit)
    /\ UNCHANGED <<hostVars, margs, menv, delegated, ran, sspec, sflags, sm,
                   initProcVars, initEffVars>>

\* run: bundle := os.Args[2]; spec := loadSpec(bundle)
RunLoad(p) ==
    /\ mpc[p] = "run"
    /\ ran' = [ran EXCEPT ![p] = TRUE]
    /\ LET r == loadSpec(config)
       IN  IF r.ok
           THEN MainGoto(p, "run_flags") /\ sspec' = [sspec EXCEPT ![p] = r.spec]
           ELSE MainExit(p, PanicExit) /\ sspec' = sspec
    /\ UNCHANGED <<hostVars, margs, menv, delegated, sflags, sm,
                   initProcVars, initEffVars>>

\* run: Cloneflags: namespaceFlags(spec); spec.Linux is a pointer, and the
\* loop over spec.Linux.Namespaces panics when the section is absent
RunFlags(p) ==
    /\ mpc[p] = "run_flags"
    /\ IF sspec[p].hasLinux
       THEN /\ sflags' = [sflags EXCEPT ![p] = namespaceFlags(sspec[p].namespaces)]
            /\ MainGoto(p, "run_start")
       ELSE /\ sflags' = sflags
            /\ MainExit(p, PanicExit)
    /\ UNCHANGED <<hostVars, margs, menv, delegated, ran, sspec, sm,
                   initProcVars, initEffVars>>

\* run: cmd.Run, first half: clone /proc/self/exe child <bundle> into the
\* new namespaces; a failure panics
RunStart(p) ==
    /\ mpc[p] = "run_start"
    /\ \E ok \in BOOLEAN :
         IF ok
         THEN /\ cpc = "none"
              /\ cpc' = "c_main"
              /\ cargs' = <<"/proc/self/exe", "child", margs[p][3]>>
              /\ cenv' = menv[p]
              /\ cflags' = sflags[p]
              /\ cparent' = p
              /\ MainGoto(p, "run_wait")
         ELSE /\ UNCHANGED <<cpc, cargs, cenv, cflags, cparent>>
              /\ MainExit(p, PanicExit)
    /\ UNCHANGED <<hostVars, margs, menv, delegated, ran, sspec, sflags, sm,
                   cspec, cexit, initEffVars>>

\* run: cmd.Run, second half: wait for Init; an error (any status but 0)
\* panics, otherwise run and main return
RunWaitIgnoresError(p) ==
    /\ mpc[p] = "run_wait"
    /\ cparent = p
    /\ cpc = "exited"
    /\ MainExit(p, ExitOk)
    /\ UNCHANGED <<hostVars, margs, menv, delegated, ran, sspec, sflags, sm,
                   initProcVars, initEffVars>>

RunWait(p) ==
    /\ mpc[p] = "run_wait"
    /\ cparent = p
    /\ cpc = "exited"
    /\ IF cexit = 0 THEN MainExit(p, ExitOk) ELSE MainExit(p, PanicExit)
    /\ UNCHANGED <<hostVars, margs, menv, delegated, ran, sspec, sflags, sm,
                   initProcVars, initEffVars>>

NextChain ==
    \E p \in Procs :
        \/ Main(p) \/ NeedDelegate(p)
        \/ Reexec(p) \/ SmFail(p) \/ SmExec(p) \/ SmDone(p) \/ ReexecWait(p)
        \/ RunLoad(p) \/ RunFlags(p) \/ RunStart(p) \/ RunWait(p)

Next == NextChain \/ NextChild

NextDecide == \E p \in Procs : Main(p) \/ NeedDelegate(p)

\* -------------------------------------------------------- initial states
NoTarget ==
    [st |-> "none", code |-> NoExit, by |-> "none", args |-> <<>>, env |-> <<>>,
     cwd |-> "", uid |-> 0, gid |-> 0, root |-> "host", ro |-> FALSE]

\* no launcher process exists yet
ChainIdle ==
    /\ mpc = [p \in Procs |-> "none"]
    /\ margs = [p \in Procs |-> <<>>]
    /\ menv = [p \in Procs |-> ""]
    /\ mexit = [p \in Procs |-> NoExit]
    /\ delegated = [p \in Procs |-> FALSE]
    /\ ran = [p \in Procs |-> FALSE]
    /\ sspec = [p \in Procs |-> ZeroSpec]
    /\ sflags = [p \in Procs |-> {}]
    /\ sm = [p \in Procs |-> NoSm]

\* what Init has done before its first statement: nothing. It starts as
\* root, in the host's root, with /dev/ptmx there or not.
InitEffects ==
    /\ hostname = "host"
    /\ fs \in {[binds |-> 0, ro |-> FALSE, root |-> "host",
                oldrootDetached |-> FALSE, oldrootRemoved |-> FALSE, ptmx |-> x] :
                 x \in {"absent", "device"}}
    /\ cred = [uid |-> 0, gid |-> 0]
    /\ trace = <<>>
    /\ reaper = FALSE
    /\ target = NoTarget
    /\ orphans = [i \in 1..MaxOrphans |-> "none"]

InitIdle ==
    /\ cpc = "none"
    /\ cargs = <<>>
    /\ cenv = ""
    /\ cflags = {}
    /\ cparent = 0
    /\ cspec = ZeroSpec
    /\ cexit = NoExit
    /\ InitEffects

\* the bundles and hosts the launcher chain is run against
ChainSpecs ==
    PartialSpecs \cup NsSpecs
    \cup { [BaseSpec EXCEPT !.hostname = h, !.readonly = ro, !.mounts = ms] :
             h \in {"", "box"}, ro \in BOOLEAN, ms \in {<<>>, <<ProcMount>>} }
ChainConfigs ==
    {[kind |-> "missing", spec |-> ZeroSpec], [kind |-> "malformed", spec |-> ZeroSpec]}
    \cup {[kind |-> "json", spec |-> s] : s \in ChainSpecs}
RunInvocations ==
    { <<"./minictr", "run", Bundle>>, <<"./minictr", "run">>,
      <<"./minictr", "exec", Bundle>>, <<"./minictr", "run", Bundle, "--quiet">> }

\* the host that needs delegation, and the four that differ from it in one
\* of the facts needDelegate reads
DelegatingHost ==
    [marker |-> "", look |-> TRUE, comm |-> SystemdName \o <<"\n">>,
     cgroup |-> <<"0", ":", ":">> \o InitScope \o <<"\n">>]
ChainHosts ==
    { DelegatingHost,
      [DelegatingHost EXCEPT !.marker = "1"],
      [DelegatingHost EXCEPT !.look = FALSE],
      [DelegatingHost EXCEPT !.comm = <<"i", "n", "i", "t", "\n">>],
      [DelegatingHost EXCEPT !.cgroup = <<"0", ":", ":", "/", "u", "\n">>] }

\* <prog> run <bundle>, started by the user
InitRun ==
    /\ \E h \in ChainHosts, a \in RunInvocations :
         /\ lookPathOk = h.look
         /\ pid1comm = h.comm
         /\ selfcgroup = h.cgroup
         /\ mpc = [p \in Procs |-> IF p = 1 THEN "main" ELSE "none"]
         /\ margs = [p \in Procs |-> IF p = 1 THEN a ELSE <<>>]
         /\ menv = [p \in Procs |-> IF p = 1 THEN h.marker ELSE ""]
    /\ config \in ChainConfigs
    /\ mexit = [p \in Procs |-> NoExit]
    /\ delegated = [p \in Procs |-> FALSE]
    /\ ran = [p \in Procs |-> FALSE]
    /\ sspec = [p \in Procs |-> ZeroSpec]
    /\ sflags = [p \in Procs |-> {}]
    /\ sm = [p \in Procs |-> NoSm]
    /\ InitIdle

\* <prog> child <bundle>: Container Init alone, against every bundle
InitChild ==
    /\ lookPathOk = FALSE
    /\ pid1comm = <<>>
    /\ selfcgroup = <<>>
    /\ config \in ConfigFiles
    /\ ChainIdle
    /\ cpc = "c_main"
    /\ cargs \in { <<"/proc/self/exe", "child", Bundle>>, <<"/proc/self/exe", "child">> }
    /\ cenv \in {"", "1"}
    /\ cflags = {}
    /\ cparent = 0
    /\ cspec = ZeroSpec
    /\ cexit = NoExit
    /\ InitEffects

\* <prog> run <bundle> on every host: the delegation decision alone
InitDecide ==
    /\ lookPathOk \in BOOLEAN
    /\ pid1comm \in Pid1Comms
    /\ selfcgroup \in SelfCgroups
    /\ config = [kind |-> "json", spec |-> BaseSpec]
    /\ \E m \in MarkerValues :
         /\ mpc = [p \in Procs |-> IF p = 1 THEN "main" ELSE "none"]
         /\ margs = [p \in Procs |-> IF p = 1 THEN <<"./minictr", "run", Bundle>> ELSE <<>>]
         /\ menv = [p \in Procs |-> IF p = 1 THEN m ELSE ""]
    /\ mexit = [p \in Procs |-> NoExit]
    /\ delegated = [p \in Procs |-> FALSE]
    /\ ran = [p \in Procs |-> FALSE]
    /\ sspec = [p \in Procs |-> ZeroSpec]
    /\ sflags = [p \in Procs |-> {}]
    /\ sm = [p \in Procs |-> NoSm]
    /\ InitIdle

Init == InitRun

\* the launcher chain, from the user's `run` to the target command
Spec == Init /\ [][Next]_vars
\* Container Init alone
SpecChild == InitChild /\ [][NextChild]_vars

\* Container Init against two bundles, for the properties that need the
\* scheduler to be fair
FewConfigs ==
    { [kind |-> "json", spec |-> s] :
        s \in { BaseSpec, [BaseSpec EXCEPT !.hostname = "box", !.readonly = TRUE] } }
InitChildFew ==
    /\ InitChild
    /\ config \in FewConfigs
    /\ cargs = <<"/proc/self/exe", "child", Bundle>>
    /\ cenv = ""
\* the statements of child(), run by the main goroutine
ChildSteps ==
    \/ ChildMain \/ ChildLoadSpec \/ ChildHostname \/ ChildRoot
    \/ ChildRoBind \/ ChildRoRemount
    \/ PivotBind \/ PivotRemount \/ PivotUnmount \/ PivotRemoveAll
    \/ ChildRmPtmx \/ ChildSymlink \/ ChildCmd
    \/ ChildSetgid \/ ChildSetuid \/ ChildGo \/ ChildStart
    \/ ChildWaitCollect \/ ChildWaitLost \/ ChildReturn
\* the Go scheduler and the kernel run every goroutine that can take a step:
\* the main goroutine, and the reaping goroutine for each child it can
\* collect. Nothing makes the target or an orphan terminate.
FairChild ==
    /\ WF_vars(ChildSteps)
    /\ WF_vars(ReaperReapTarget)
    /\ \A i \in 1..MaxOrphans : WF_vars(ReaperReapOrphan(i))
SpecChildFair == InitChildFew /\ [][NextChild]_vars /\ FairChild
\* the delegation decision alone
SpecDecide == InitDecide /\ [][NextDecide]_vars

\* ------------------------------------------------ Container Init: claims
\* the bring-up step a system call belongs to
StepOf(call) ==
    CASE call = "sethostname" -> 1
      [] call \in {"mount", "umount", "removeall", "remove_ptmx", "symlink_ptmx"} -> 2
      [] call \in {"mkdirall", "mount_aux"} -> 3
      [] call \in {"setgid", "setuid"} -> 4
      [] call = "go_reaper" -> 5
      [] call = "start" -> 6

Made(call) == \E i \in DOMAIN trace : trace[i].call = call
Succeeded(call) == \E i \in DOMAIN trace : trace[i].call = call /\ trace[i].ok
Failed(call) == \E i \in DOMAIN trace : trace[i].call = call /\ ~trace[i].ok
SucceededBefore(call, i) ==
    \E j \in 1..(i - 1) : trace[j].call = call /\ trace[j].ok
TargetStarted == target.st # "none"

\* C1: the bring-up steps Init performs come in the order hostname, root
\* switch, auxiliary mounts, privilege drop, reaper, target; a step begins
\* only when the one before has completed (a failed call is the last call,
\* the dropped error of removing /dev/ptmx aside); the hostname is set only
\* for a non-empty spec.hostname; and the target is started only after the
\* root switch (pivotRoot returned nil, the ptmx link made) and both
\* privilege changes have completed.
C1_BringUpOrder ==
    /\ \A i, j \in DOMAIN trace :
         i < j => StepOf(trace[i].call) <= StepOf(trace[j].call)
    /\ \A i \in DOMAIN trace :
         (i < Len(trace) /\ ~trace[i].ok) => trace[i].call = "remove_ptmx"
    /\ Made("sethostname") => cspec.hostname # ""
    /\ \A i \in DOMAIN trace :
         trace[i].call = "start" =>
            /\ cspec.hostname # "" => SucceededBefore("sethostname", i)
            /\ SucceededBefore("removeall", i)
            /\ SucceededBefore("symlink_ptmx", i)
            /\ SucceededBefore("setgid", i)
            /\ SucceededBefore("setuid", i)
            /\ SucceededBefore("go_reaper", i)
    /\ TargetStarted => Succeeded("start")

C1_Witness ==
    /\ target.st = "running"
    /\ cspec.hostname # "" /\ hostname = cspec.hostname
    /\ Succeeded("sethostname") /\ Succeeded("symlink_ptmx")
    /\ Succeeded("setuid") /\ Succeeded("go_reaper") /\ Succeeded("start")

\* C2 (as claimed): once the target has been started, every entry of
\* spec.mounts has been mounted, one mount per entry.
AuxMounted == SelectSeq(trace, LAMBDA e : e.call = "mount_aux" /\ e.ok)
C2_AllMountsDone ==
    TargetStarted => Len(AuxMounted) = Len(cspec.mounts)

\* C3 (as claimed): once pivotRoot has returned success the root of the
\* process is rootfs, the old root detached and its directory removed.
PivotReturned == Succeeded("removeall")
C3_RootPivoted ==
    PivotReturned =>
        /\ fs.root = "rootfs"
        /\ fs.oldrootDetached
        /\ fs.oldrootRemoved

\* C4 (as claimed): a read-only remount of rootfs is issued if and only if
\* spec.root.readonly: none without it, and with it the root is read-only
\* once the root switch is over.
RoRemountIssued ==
    \E i \in DOMAIN trace : trace[i].call = "mount" /\ "MS_RDONLY" \in trace[i].flags
C4_ReadonlyIff ==
    /\ RoRemountIssued => cspec.readonly
    /\ (PivotReturned /\ cspec.readonly) => fs.ro

\* C5: the group ID is set to spec.process.gid before the user ID is set to
\* spec.process.uid, both before the target is started (which runs with
\* them); when either change fails the target is never started and Init
\* has exited with a status other than 0.
C5_PrivilegeDrop ==
    /\ \A i \in DOMAIN trace :
         trace[i].call = "setuid" => SucceededBefore("setgid", i)
    /\ Succeeded("setgid") => cred.gid = cspec.gid
    /\ Succeeded("setuid") => cred.uid = cspec.uid
    /\ \A i \in DOMAIN trace :
         trace[i].call = "start" =>
            SucceededBefore("setgid", i) /\ SucceededBefore("setuid", i)
    /\ TargetStarted => (target.gid = cspec.gid /\ target.uid = cspec.uid)
    /\ (Failed("setgid") \/ Failed("setuid")) =>
         /\ ~TargetStarted /\ ~Made("start")
         /\ cpc = "exited" /\ cexit # 0 /\ cexit # NoExit

C5_Witness ==
    /\ target.st = "running"
    /\ cspec.uid = 1000 /\ cspec.gid = 100
    /\ target.uid = 1000 /\ target.gid = 100

\* C6 (as claimed): when the target was started and exited with code c,
\* Init exits with exactly c; when the target failed to start, Init exits
\* with a status other than 0.
C6_ExitCodePropagated ==
    cpc = "exited" =>
        /\ target.code # NoExit => cexit = target.code
        /\ Failed("start") => cexit # 0

\* ---------------------------------------------------- delegation: claims
\* process p was asked to `run` and its needDelegate() has returned
Decided(p) == Dispatch(margs[p]) = "run" /\ mpc[p] \notin {"none", "main", "need"}
InRun(p) == mpc[p] \in {"run", "run_flags", "run_start", "run_wait"}
Reexecs == {p \in Procs : sm[p].st # "none"}
Supervisors == {p \in Procs : ran[p]}

\* C7: needDelegate returns true exactly when the marker is not "1",
\* systemd-run is on the search path, /proc/1/comm starts with "systemd"
\* and /proc/self/cgroup contains "/init.scope"; with the marker set it
\* returns false whatever the other three are.
C7_NeedDelegateIff ==
    \A p \in Procs :
        Decided(p) =>
            /\ delegated[p] <=>
                 /\ menv[p] # "1"
                 /\ lookPathOk
                 /\ Len(pid1comm) >= Len(SystemdName)
                 /\ \A i \in 1..Len(SystemdName) : pid1comm[i] = SystemdName[i]
                 /\ \E k \in 0..Len(selfcgroup) :
                      /\ k + Len(InitScope) <= Len(selfcgroup)
                      /\ \A i \in 1..Len(InitScope) : selfcgroup[k + i] = InitScope[i]
            /\ menv[p] = "1" => ~delegated[p]
            /\ mpc[p] = (IF delegated[p] THEN "reexec" ELSE "run")

C7_Witness ==
    /\ mpc[1] = "reexec" /\ delegated[1]
    /\ menv[1] = "0"
    /\ Len(pid1comm) > Len(SystemdName) + 1
    /\ selfcgroup[1] = "1"

\* C8 (as claimed): a finished `run` invocation has run the Supervisor
\* exactly once across the chain.
C8_SupervisorExactlyOnce ==
    (Dispatch(margs[1]) = "run" /\ mpc[1] = "exited") => Cardinality(Supervisors) = 1

\* C8 (amended): at most one re-exec through systemd-run; the re-exec'd
\* process has the marker set, decides against delegation and goes to the
\* Supervisor; a process that delegated never runs the Supervisor; across
\* the chain the Supervisor runs at most once, and exactly once when the
\* invocation finished without delegation or with systemd-run having
\* executed the wrapped command.
C8_AtMostOneReexec ==
    /\ Cardinality(Reexecs) <= 1
    /\ \A p \in Procs :
         /\ (p > 1 /\ mpc[p] # "none") =>
               /\ menv[p] = "1"
               /\ margs[p] = <<SelfExe>> \o Tail(margs[1])
               /\ ~delegated[p]
               /\ Decided(p) => (ran[p] \/ mpc[p] = "run")
         /\ delegated[p] => (~ran[p] /\ ~InRun(p))
         /\ (cparent = p /\ p > 1) => cenv = "1"
    /\ Cardinality(Supervisors) <= 1
    /\ (Dispatch(margs[1]) = "run" /\ mpc[1] = "exited"
          /\ (~delegated[1] \/ (sm[1].st = "exited" /\ mpc[2] # "none")))
       => Cardinality(Supervisors) = 1

C8_Witness ==
    /\ mpc[1] = "exited" /\ delegated[1] /\ mexit[1] = 0
    /\ mpc[2] = "exited" /\ ran[2] /\ ~delegated[2]
    /\ cparent = 2 /\ cpc = "exited"

\* C9 (as claimed): a process that launched systemd-run and waited for it
\* exits with exactly systemd-run's exit status.
C9_ScopeManagerCodePropagated ==
    \A p \in Procs :
        (mpc[p] = "exited" /\ sm[p].st = "exited") => mexit[p] = sm[p].code

\* C10: without systemd-run on the search path no process delegates and a
\* `run` invocation goes on to the Supervisor; a process that decided to
\* delegate never runs the Supervisor, and when systemd-run could not be
\* started or ended with a status other than 0 it exits with a status other
\* than 0.
C10_DelegationFailure ==
    \A p \in Procs :
        /\ (~lookPathOk /\ mpc[p] # "none") =>
              /\ ~delegated[p] /\ sm[p].st = "none"
              /\ Decided(p) => (ran[p] \/ mpc[p] = "run")
        /\ delegated[p] =>
              /\ ~ran[p] /\ ~InRun(p)
              /\ (mpc[p] = "exited" /\ (sm[p].st = "none" \/ sm[p].code # 0))
                    => (mexit[p] # 0 /\ mexit[p] # NoExit)

C10_Witness ==
    /\ delegated[1] /\ mpc[1] = "exited"
    /\ sm[1].st = "exited" /\ sm[1].code = 1 /\ mpc[2] = "none"
    /\ mexit[1] # 0 /\ Supervisors = {}

\* ------------------------------------------------------ Supervisor: claims
\* C11: run() starts Init at most once (a process that has made its one
\* attempt never makes another, and an Init that has begun is never begun
\* again); the Supervisor exits only after the Init it started has exited,
\* with 0 when Init exited 0 and with a status other than 0 when Init
\* exited otherwise or was never started.
C11_SupervisorOutcome ==
    /\ [](\A p \in Procs :
            (ran[p] /\ mpc[p] = "exited") =>
               /\ mexit[p] # NoExit
               /\ cparent = p =>
                    /\ cpc = "exited"
                    /\ (cexit = 0) <=> (mexit[p] = 0)
               /\ cparent # p => mexit[p] # 0)
    /\ [][\A p \in Procs :
            /\ mpc[p] \in {"run_wait", "exited"} => mpc'[p] \in {"run_wait", "exited"}
            /\ cparent = p => cparent' = p
            /\ cpc \notin {"none", "c_main"} => cpc' # "c_main"]_vars

C11_Witness ==
    /\ ran[1] /\ mpc[1] = "exited" /\ cparent = 1
    /\ cpc = "exited" /\ cexit = PanicExit /\ target.code = 1
    /\ mexit[1] # 0

\* C12 (as claimed): when config.json is missing, malformed or does not
\* parse into a fully populated Spec (root, process and a non-empty argv),
\* no Supervisor starts an Init, Init makes no system call and changes no
\* hostname, and both exit with a status other than 0.
Populated(cfg) ==
    /\ cfg.kind = "json"
    /\ cfg.spec.hasRoot
    /\ cfg.spec.hasProcess
    /\ Len(cfg.spec.args) > 0
C12_LoadAllOrNothing ==
    ~Populated(config) =>
        /\ cparent = 0
        /\ trace = <<>>
        /\ hostname = "host"
        /\ cpc = "exited" => cexit # 0
        /\ \A p \in Procs : (ran[p] /\ mpc[p] = "exited") => mexit[p] # 0

\* C13 (as claimed): the clone flags run() computes are the flags of exactly
\* those of pid, uts, mount that occur in the spec's namespace list, whatever
\* else the list holds; computing them never fails, so a spec that requests
\* no namespaces still has its Init started; and the launch exits 0 when
\* the target exits 0.
RequestedKinds(spec) == {spec.namespaces[i] : i \in DOMAIN spec.namespaces}
ExpectedFlags(spec) ==
    (IF "pid" \in RequestedKinds(spec) THEN {"CLONE_NEWPID"} ELSE {})
    \cup (IF "uts" \in RequestedKinds(spec) THEN {"CLONE_NEWUTS"} ELSE {})
    \cup (IF "mount" \in RequestedKinds(spec) THEN {"CLONE_NEWNS"} ELSE {})
C13_NamespaceFlags ==
    /\ [](\A p \in Procs :
            /\ (ran[p] /\ config.kind = "json" /\ mpc[p] \notin {"run", "run_flags"})
                  => sflags[p] = ExpectedFlags(config.spec)
            /\ cparent = p => cflags = ExpectedFlags(config.spec)
            /\ (mpc[p] = "exited" /\ cparent = p /\ target.code = 0) => mexit[p] = 0)
    /\ [][\A p \in Procs :
            mpc[p] = "run_flags" => mpc'[p] \in {"run_flags", "run_start"}]_vars

\* C14 (as claimed): the environment of the target command is exactly
\* spec.process.env, whatever environment Init itself inherited (the
\* delegation marker included), also when spec.process.env is empty or absent.
C14_EnvFromSpecOnly ==
    TargetStarted => target.env = cspec.env

\* C15: while Init is alive with its reaping goroutine started, every child
\* of Init other than the target that has terminated is eventually reaped,
\* under fair scheduling of the reaping goroutine; and no such child
\* terminates before the goroutine is started.
C15_ReaperLiveness ==
    /\ \A i \in 1..MaxOrphans :
         (orphans[i] = "zombie") ~> (orphans[i] = "reaped" \/ ~Alive)
    /\ [](\A i \in 1..MaxOrphans : orphans[i] # "none" => reaper)
C15_Witness ==
    /\ Alive /\ reaper
    /\ target.st = "running"
    /\ orphans[1] = "reaped"

\* C16 (as claimed): whatever the interleaving of the reaping goroutine
\* with cmd.Run, the target's termination is collected by the foreground
\* wait and never by the reaper, so the foreground wait does not fail and
\* Init's exit status follows the target's alone.
C16_ForegroundCollects ==
    /\ target.st = "reaped" => target.by = "fg"
    /\ (cpc = "exited" /\ target.st = "reaped")
          => ((cexit = 0) <=> (target.code = 0))

\* C17: when a fatal bring-up call of Init fails (sethostname, a mount of
\* the rootfs, the detach or removal of the old root, the ptmx symlink,
\* setgid, setuid), it is the last call Init makes: Init has exited with a
\* status other than 0, the reaping goroutine and the target were never
\* started, and the user id was never changed.
FatalCalls ==
    {"sethostname", "mount", "umount", "removeall", "symlink_ptmx", "setgid", "setuid"}
C17_FatalStepAborts ==
    \A i \in DOMAIN trace :
        (trace[i].call \in FatalCalls /\ ~trace[i].ok) =>
            /\ i = Len(trace)
            /\ cpc = "exited"
            /\ cexit # 0
            /\ ~reaper
            /\ ~TargetStarted
            /\ cred.uid = 0
C17_Witness ==
    /\ Succeeded("setgid") /\ Failed("setuid")
    /\ cpc = "exited" /\ cexit = PanicExit
    /\ ~TargetStarted

\* C18: once the target command has terminated, Init exits, although the
\* reaping goroutine, once started, never ends; and Init never exits while
\* a target it started is still running.
C18_InitTermination ==
    /\ (target.st \in {"zombie", "reaped"}) ~> (cpc = "exited")
    /\ [](cpc = "exited" => target.st # "running")
    /\ [][reaper => reaper']_vars
C18_Witness ==
    /\ cpc = "exited" /\ cexit = ExitOk
    /\ reaper
    /\ target.st = "reaped" /\ target.by = "fg" /\ target.code = 0

\* C19: the vector handed to the scope manager holds, before the command,
\* the transient-scope flag, the property Delegate=yes, a TasksMax property
\* and the setting of the delegation marker to "1"; the command is the
\* current executable followed by the arguments of the original invocation,
\* unchanged and in order; so the wrapped process has the marker set and is
\* dispatched to run with the same bundle path.
OptionsOf(argv) == [i \in 1..(CommandStart(argv) - 1) |-> argv[i]]
HasProperty(opts, first) ==
    \E i \in 1..(Len(opts) - 1) : opts[i] = <<"-p">> /\ opts[i + 1][1] = first
C19_ReexecVector ==
    \A p \in Procs :
        sm[p].st # "none" =>
            LET argv == sm[p].argv
                opts == OptionsOf(argv)
                cs == CommandStart(argv)
            IN  /\ \E i \in DOMAIN opts : opts[i] = <<"--scope">>
                /\ HasProperty(opts, "Delegate=yes")
                /\ HasProperty(opts, "TasksMax=")
                /\ \E i \in DOMAIN opts : opts[i] = <<"--setenv=", "RUNC_DELEGATED", "1">>
                /\ argv[cs] = <<SelfExe>>
                /\ Len(argv) - cs = Len(margs[p]) - 1
                /\ \A k \in 1..(Len(margs[p]) - 1) : argv[cs + k] = <<margs[p][k + 1]>>
                /\ (p < MaxChain /\ sm[p].st \in {"execd", "exited"} /\ mpc[p + 1] # "none") =>
                      /\ margs[p + 1] = <<SelfExe>> \o Tail(margs[p])
                      /\ Dispatch(margs[p + 1]) = "run"
                      /\ margs[p + 1][3] = margs[p][3]
                      /\ menv[p + 1] = "1"
C19_Witness ==
    /\ sm[1].st = "execd"
    /\ margs[1] = <<"./minictr", "run", Bundle, "--quiet">>
    /\ margs[2] = <<SelfExe, "run", Bundle, "--quiet">>
    /\ menv[1] = "" /\ menv[2] = "1"
    /\ ran[2]

\* C20 (as claimed): Init creates the /dev/ptmx symlink only where no
\* /dev/ptmx exists: an entry that exists is left as it is, and once the
\* step is done /dev/ptmx exists in every run that goes on.
C20_PtmxOnlyIfAbsent ==
    /\ [][fs.ptmx # "absent" => fs'.ptmx = fs.ptmx]_vars
    /\ [](Succeeded("symlink_ptmx") => fs.ptmx # "absent")

====
